---- MODULE Spec2Model ----
(***************************************************************************)
(* Model of the accept_visit stored procedure (PL/pgSQL) and of the data   *)
(* loading of the admin DashboardScreen (React).                           *)
(*                                                                         *)
(* accept_visit: every invocation is one transaction.  Its statements are  *)
(* the steps of a process, so that invocations interleave statement by     *)
(* statement.  Rows carry the id of the transaction that wrote them (xid); *)
(* the BEGIN ... EXCEPTION block is a subtransaction, so entering the      *)
(* handler undoes every row the invocation wrote inside the block.         *)
(***************************************************************************)
EXTENDS Naturals, Sequences, FiniteSets

\* ---------------------------------------------------------------- bounds
MaxCalls == 2
MaxTime == 2
MaxLoads == 2

Calls == 1..MaxCalls

VARIABLES
    now,                  \* the database clock
    activities,           \* table activities
    qr_codes,             \* table qr_codes
    visits,               \* table visits; rows [id, user_id, xid]
    points_transactions,  \* the ledger, written by process_points_transaction
    visit_seq,            \* generator of visits.id
    server_log,           \* RAISE LOG output, outside any transaction
    pc,                   \* per invocation: the statement it is at
    frame,                \* per invocation: parameters and DECLAREd variables
    snap,                 \* per invocation: the committed rows when it began
    \* DashboardScreen
    stats, reviewStats, loading, error, isAdmin,   \* useState cells
    dpc,                  \* position of the running async function
    run,                  \* the loadData run in flight
    adminStatus,          \* how checkAdminStatus settled
    pending,              \* the two promises of Promise.all
    initFetched,          \* did the run started by initializeData fetch
    loads                 \* loadData runs started from the rendered screen

dbvars == <<now, activities, qr_codes, visits, points_transactions, visit_seq,
            server_log, pc, frame, snap>>
dashvars == <<stats, reviewStats, loading, error, isAdmin, dpc, run,
              adminStatus, pending, initFetched, loads>>
vars == <<dbvars, dashvars>>

\* ------------------------------------------------------------ the tables
NoActivity == [id |-> "", name |-> "", points |-> 0, is_active |-> FALSE]

InitActivities ==
    { [id |-> "a-gym",  name |-> "gym",  points |-> 10, is_active |-> TRUE],
      [id |-> "a-yoga", name |-> "yoga", points |-> 5,  is_active |-> FALSE] }

InitQrCodes ==
    { [code |-> "qr-1", user_id |-> "u1", is_active |-> TRUE,  expires_at |-> 1],
      [code |-> "qr-2", user_id |-> "u2", is_active |-> TRUE,  expires_at |-> 2],
      [code |-> "qr-3", user_id |-> "u3", is_active |-> FALSE, expires_at |-> 2] }

\* what a caller may pass: known and unknown names
CodeArgs == {"qr-1", "qr-2", "qr-3", "qr-x"}
ActivityArgs == {"gym", "yoga", "swim"}

\* errors the ledger mutator may raise
PptErrors == {"Insufficient points", "User not found"}

NoFrame == [p_code |-> "", p_activity_name |-> "", is_admin |-> FALSE,
            v_user_id |-> "", v_visit_id |-> 0, v_activity |-> NoActivity,
            sqlerrm |-> "", error |-> ""]

NoSnap == [visits |-> {}, ledger |-> {}, qr_codes |-> {}, activities |-> {},
           done |-> {}]

\* rows of committed transactions: the invocation returned
Committed(rows) == {r \in rows : pc[r.xid] = "returned"}

\* ------------------------------------------------------- accept_visit
\* WHERE name = p_activity_name AND is_active = true
FindActiveActivity(name) ==
    {a \in activities : a.name = name /\ a.is_active = TRUE}

\* WHERE code = p_code AND is_active = true AND expires_at > now()
CodeNotAfterExpiryM(code, t) ==
    {q \in qr_codes : q.code = code /\ q.is_active = TRUE /\ q.expires_at >= t}
FindActiveUnexpiredCode(code, t) ==
    {q \in qr_codes : q.code = code /\ q.is_active = TRUE /\ q.expires_at > t}

\* the three guarded RAISE EXCEPTIONs in their order; "" when none fires
AdminNotCheckedM(code, act, adm, t) ==
    IF FindActiveActivity(act) = {} THEN "Invalid activity type"
    ELSE IF FindActiveUnexpiredCode(code, t) = {}
         THEN "Invalid or expired QR code"
    ELSE ""
CodeCheckedFirstM(code, act, adm, t) ==
    IF ~adm THEN "Unauthorized: Admin access required"
    ELSE IF FindActiveUnexpiredCode(code, t) = {}
         THEN "Invalid or expired QR code"
    ELSE IF FindActiveActivity(act) = {} THEN "Invalid activity type"
    ELSE ""
FirstRaise(code, act, adm, t) ==
    IF ~adm THEN "Unauthorized: Admin access required"
    ELSE IF FindActiveActivity(act) = {} THEN "Invalid activity type"
    ELSE IF FindActiveUnexpiredCode(code, t) = {}
         THEN "Invalid or expired QR code"
    ELSE ""

\* RAISE EXCEPTION inside the block: control goes to the handler
Raise(c, msg) == pc' = [pc EXCEPT ![c] = "exception"]

\* the call: a new transaction whose now() is its start time; the admin
\* check and the two lookups.  They read only the caller's session and the
\* two tables no invocation writes, so they are one step.  Invocations are
\* interchangeable, so they are numbered in the order they begin.
Validate(c, code, act, adm) ==
    /\ pc[c] = "idle"
    /\ \A d \in Calls : d < c => pc[d] # "idle"
    /\ snap' = [snap EXCEPT ![c] =
                   [visits |-> Committed(visits),
                    ledger |-> Committed(points_transactions),
                    qr_codes |-> qr_codes, activities |-> activities,
                    done |-> {d \in Calls : pc[d] \in {"returned", "failed"}}]]
    /\ LET args == [NoFrame EXCEPT !.p_code = code, !.p_activity_name = act,
                                   !.is_admin = adm]
           msg == FirstRaise(code, act, adm, now)
       IN  IF msg # ""
           THEN /\ Raise(c, msg)
                /\ frame' = [frame EXCEPT ![c] = [args EXCEPT !.sqlerrm = msg]]
           ELSE \E a \in FindActiveActivity(act),
                   q \in FindActiveUnexpiredCode(code, now) :
                   /\ pc' = [pc EXCEPT ![c] = "insert_visit"]
                   /\ frame' = [frame EXCEPT ![c] =
                                   [args EXCEPT !.v_activity = a,
                                                !.v_user_id = q.user_id]]
    /\ UNCHANGED <<now, activities, qr_codes, visits, points_transactions,
                   visit_seq, server_log>>

\* INSERT INTO visits (user_id) VALUES (v_user_id) RETURNING id INTO v_visit_id
InsertedTwiceM(c, id) ==
    {[id |-> id, user_id |-> frame[c].v_user_id, xid |-> c],
     [id |-> id + MaxCalls, user_id |-> frame[c].v_user_id, xid |-> c]}
InsertedVisits(c, id) ==
    {[id |-> id, user_id |-> frame[c].v_user_id, xid |-> c]}

InsertVisit(c) ==
    /\ pc[c] = "insert_visit"
    /\ visit_seq' = visit_seq + 1
    /\ visits' = visits \cup InsertedVisits(c, visit_seq')
    /\ frame' = [frame EXCEPT ![c].v_visit_id = visit_seq']
    /\ pc' = [pc EXCEPT ![c] = "process_points"]
    /\ UNCHANGED <<now, activities, qr_codes, points_transactions,
                   server_log, snap>>

\* jsonb_build_object('qr_code', ..., 'visit_id', ..., 'activity_name', ...,
\*                    'activity_id', ...)
MetadataNoVisitM(c) ==
    [qr_code |-> frame[c].p_code,
     activity_name |-> frame[c].v_activity.name,
     activity_id |-> frame[c].v_activity.id]
Metadata(c) ==
    [qr_code |-> frame[c].p_code,
     visit_id |-> frame[c].v_visit_id,
     activity_name |-> frame[c].v_activity.name,
     activity_id |-> frame[c].v_activity.id]

\* the argument list of PERFORM process_points_transaction(...)
PptArgsNoteWithoutNameM(c) ==
    [user_id |-> frame[c].v_user_id,
     amount |-> frame[c].v_activity.points,
     type |-> "earn",
     description |-> "Points earned from ",
     metadata |-> Metadata(c)]
PptArgs(c) ==
    [user_id |-> frame[c].v_user_id,
     amount |-> frame[c].v_activity.points,
     type |-> "earn",
     description |-> "Points earned from " \o frame[c].v_activity.name,
     metadata |-> Metadata(c)]

\* the ledger mutator, when it accepts: one ledger row written in the
\* caller's transaction
process_points_transaction(c, args) ==
    points_transactions \cup
        {[xid |-> c, user_id |-> args.user_id, amount |-> args.amount,
          type |-> args.type, description |-> args.description,
          metadata |-> args.metadata]}

\* "Note: We no longer deactivate the QR code here"
DeactivateCodeM(c) ==
    {IF q.code = frame[c].p_code THEN [q EXCEPT !.is_active = FALSE] ELSE q :
        q \in qr_codes}
QrCodesAfterAccept(c) == qr_codes

\* PERFORM process_points_transaction(...): it accepts, or raises its error
ProcessPoints(c) ==
    /\ pc[c] = "process_points"
    /\ \/ /\ points_transactions' = process_points_transaction(c, PptArgs(c))
          /\ qr_codes' = QrCodesAfterAccept(c)
          /\ pc' = [pc EXCEPT ![c] = "return"]
          /\ UNCHANGED frame
       \/ \E e \in PptErrors :
             /\ Raise(c, e)
             /\ frame' = [frame EXCEPT ![c].sqlerrm = e]
             /\ UNCHANGED <<points_transactions, qr_codes>>
    /\ UNCHANGED <<now, activities, visits, visit_seq, server_log, snap>>

\* RETURN: the function ends and the calling statement commits
Return(c) ==
    /\ pc[c] = "return"
    /\ pc' = [pc EXCEPT ![c] = "returned"]
    /\ UNCHANGED <<now, activities, qr_codes, visits, points_transactions,
                   visit_seq, server_log, snap, frame>>

\* entering EXCEPTION WHEN OTHERS: the block's subtransaction is undone
KeepRowsM(c, rows) == rows
RolledBack(c, rows) == {r \in rows : r.xid # c}

\* RAISE LOG 'Error in accept_visit: %', SQLERRM
LogLine(c) ==
    [xid |-> c, line |-> "Error in accept_visit: " \o frame[c].sqlerrm]

\* RAISE; the caller sees the error the handler caught
RaisedGenericM(c) == "accept_visit failed"
Reraised(c) == frame[c].sqlerrm

\* EXCEPTION WHEN OTHERS THEN RAISE LOG ...; RAISE;
Handler(c) ==
    /\ pc[c] = "exception"
    /\ visits' = RolledBack(c, visits)
    /\ points_transactions' = RolledBack(c, points_transactions)
    /\ server_log' = server_log \cup {LogLine(c)}
    /\ frame' = [frame EXCEPT ![c].error = Reraised(c)]
    /\ pc' = [pc EXCEPT ![c] = "failed"]
    /\ UNCHANGED <<now, activities, qr_codes, visit_seq, snap>>

\* the clock advances
Tick ==
    /\ now < MaxTime
    /\ now' = now + 1
    /\ UNCHANGED <<activities, qr_codes, visits, points_transactions,
                   visit_seq, server_log, pc, frame, snap>>

InitDb ==
    /\ now = 0
    /\ activities = InitActivities
    /\ qr_codes = InitQrCodes
    /\ visits = {}
    /\ points_transactions = {}
    /\ visit_seq = 0
    /\ server_log = {}
    /\ pc = [c \in Calls |-> "idle"]
    /\ frame = [c \in Calls |-> NoFrame]
    /\ snap = [c \in Calls |-> NoSnap]

\* ---------------------------------------------------- DashboardScreen
StatsValues == {"stats-a", "stats-b"}
ReviewValues == {"reviews-a", "reviews-b"}

\* the isAdmin a loadData closure reads: the one of the render that made
\* it.  initializeData is made by the first render (useEffect with []),
\* where useState(false) gave isAdmin = false; the handlers of the rendered
\* screen are made by the latest render.
CapturedIsAdmin(r) == IF r = "init" THEN FALSE ELSE isAdmin

\* loadData up to its first await, or to its end when it awaits nothing
LoadData(r) ==
    /\ error' = "null"
    /\ run' = r
    /\ IF CapturedIsAdmin(r)
       THEN /\ loading' = TRUE
            /\ pending' = [getAdminStats |-> "pending",
                           getReviewStats |-> "pending"]
            /\ initFetched' = (initFetched \/ r = "init")
            /\ dpc' = "await_all"
            /\ UNCHANGED <<stats, reviewStats>>
       ELSE /\ stats' = "null"
            /\ reviewStats' = "null"
            /\ loading' = FALSE
            /\ dpc' = "ready"
            /\ UNCHANGED <<pending, initFetched>>

\* the effect: initializeData starts and awaits checkUserAdmin
Mount ==
    /\ dpc = "mount"
    /\ dpc' = "await_checkAdminStatus"
    /\ UNCHANGED <<stats, reviewStats, loading, error, isAdmin, run,
                   adminStatus, pending, initFetched, loads>>

\* checkUserAdmin: checkAdminStatus settles; setIsAdmin
CheckUserAdmin(outcome) ==
    /\ dpc = "await_checkAdminStatus"
    /\ adminStatus' = outcome
    /\ isAdmin' = (outcome = "true")
    /\ dpc' = "init_loadData"
    /\ UNCHANGED <<stats, reviewStats, loading, error, run, pending,
                   initFetched, loads>>

\* initializeData resumes: loadData()
InitLoadData ==
    /\ dpc = "init_loadData"
    /\ LoadData("init")
    /\ UNCHANGED <<isAdmin, adminStatus, loads>>

\* getAdminStats() settles; a rejection is caught and gives null
SettleAdminStats(v) ==
    /\ dpc = "await_all"
    /\ pending.getAdminStats = "pending"
    /\ pending' = [pending EXCEPT !.getAdminStats = v]
    /\ UNCHANGED <<stats, reviewStats, loading, error, isAdmin, dpc, run,
                   adminStatus, initFetched, loads>>

\* getReviewStats() settles; a rejection is caught and gives null
SettleReviewStats(v) ==
    /\ dpc = "await_all"
    /\ pending.getReviewStats = "pending"
    /\ pending' = [pending EXCEPT !.getReviewStats = v]
    /\ UNCHANGED <<stats, reviewStats, loading, error, isAdmin, dpc, run,
                   adminStatus, initFetched, loads>>

\* Promise.all resolves: setStats, setReviewStats, finally setLoading(false)
LoadDataResume ==
    /\ dpc = "await_all"
    /\ pending.getAdminStats # "pending"
    /\ pending.getReviewStats # "pending"
    /\ stats' = pending.getAdminStats
    /\ reviewStats' = pending.getReviewStats
    /\ loading' = FALSE
    /\ dpc' = "ready"
    /\ pending' = [getAdminStats |-> "none", getReviewStats |-> "none"]
    /\ UNCHANGED <<error, isAdmin, run, adminStatus, initFetched, loads>>

\* the rendered screen (loading is false) calls loadData: Review's
\* onReviewSubmitted, the refresh and the retry Pressable
Press ==
    /\ dpc = "ready"
    /\ ~loading
    /\ loads < MaxLoads
    /\ loads' = loads + 1
    /\ LoadData("press")
    /\ UNCHANGED <<isAdmin, adminStatus>>

InitDash ==
    /\ stats = "null"
    /\ reviewStats = "null"
    /\ loading = TRUE
    /\ error = "null"
    /\ isAdmin = FALSE
    /\ dpc = "mount"
    /\ run = "none"
    /\ adminStatus = "pending"
    /\ pending = [getAdminStats |-> "none", getReviewStats |-> "none"]
    /\ initFetched = FALSE
    /\ loads = 0

\* ------------------------------------------------------ specifications
Init == InitDb /\ InitDash

Next ==
    \/ \E c \in Calls, code \in CodeArgs, act \in ActivityArgs, adm \in BOOLEAN :
          Validate(c, code, act, adm) /\ UNCHANGED dashvars
    \/ \E c \in Calls : InsertVisit(c) /\ UNCHANGED dashvars
    \/ \E c \in Calls : ProcessPoints(c) /\ UNCHANGED dashvars
    \/ \E c \in Calls : Return(c) /\ UNCHANGED dashvars
    \/ \E c \in Calls : Handler(c) /\ UNCHANGED dashvars
    \/ Tick /\ UNCHANGED dashvars

Spec == Init /\ [][Next]_vars

NextDash ==
    \/ Mount /\ UNCHANGED dbvars
    \/ \E o \in {"true", "false", "throws"} : CheckUserAdmin(o) /\ UNCHANGED dbvars
    \/ InitLoadData /\ UNCHANGED dbvars
    \/ \E v \in StatsValues \cup {"null"} : SettleAdminStats(v) /\ UNCHANGED dbvars
    \/ \E v \in ReviewValues \cup {"null"} : SettleReviewStats(v) /\ UNCHANGED dbvars
    \/ LoadDataResume /\ UNCHANGED dbvars
    \/ Press /\ UNCHANGED dbvars

SpecDash == Init /\ [][NextDash]_vars

\* ------------------------------------------------------------ properties
Unauthorized == "Unauthorized: Admin access required"
InvalidActivity == "Invalid activity type"
InvalidOrExpiredCode == "Invalid or expired QR code"

RowsOf(c, rows) == {r \in rows : r.xid = c}
Invoked(c) == pc[c] # "idle"
Aborted(c) == pc[c] \in {"exception", "failed"}
NoEffect(c) ==
    /\ RowsOf(c, visits) = {}
    /\ RowsOf(c, points_transactions) = {}
    /\ frame[c].v_visit_id = 0
\* no other invocation was in flight while c ran
Alone(c) == \A d \in Calls \ {c} : pc[d] = "idle" \/ d \in snap[c].done

\* C1: when the ledger mutator fails after the Visit insert, the call fails
\* and leaves the tables as they were when it began: no Visit row and no
\* ledger row of the call exists, the rows committed before it are all
\* there, QRCode and Activity rows are as before, and when no other call ran
\* meanwhile the Visit and ledger tables equal their state before the call.
C1_Atomicity ==
    \A c \in Calls :
        (pc[c] = "failed" /\ frame[c].sqlerrm \in PptErrors) =>
            /\ frame[c].v_visit_id # 0
            /\ RowsOf(c, visits) = {}
            /\ RowsOf(c, points_transactions) = {}
            /\ \A v \in visits : v.id # frame[c].v_visit_id
            /\ snap[c].visits \subseteq visits
            /\ snap[c].ledger \subseteq points_transactions
            /\ qr_codes = snap[c].qr_codes
            /\ activities = snap[c].activities
            /\ Alone(c) => /\ visits = snap[c].visits
                           /\ points_transactions = snap[c].ledger

C1_Witness ==
    \E c \in Calls :
        /\ pc[c] = "failed"
        /\ frame[c].sqlerrm \in PptErrors
        /\ frame[c].v_visit_id # 0
        /\ snap[c].visits # {}
        /\ Alone(c)

\* C2: a call made while is_admin() is false ends in the handler with
\* Unauthorized, whatever its code and activity, and writes no Visit row and
\* no ledger row.
C2_AuthorizationGate ==
    \A c \in Calls :
        (Invoked(c) /\ ~frame[c].is_admin) =>
            /\ Aborted(c)
            /\ frame[c].sqlerrm = Unauthorized
            /\ pc[c] = "failed" => frame[c].error = Unauthorized
            /\ NoEffect(c)

C2_Witness ==
    \E c \in Calls :
        /\ pc[c] = "failed"
        /\ ~frame[c].is_admin
        /\ frame[c].error = Unauthorized
        /\ FindActiveActivity(frame[c].p_activity_name) # {}
        /\ FindActiveUnexpiredCode(frame[c].p_code, now) # {}

\* C3: an admin call whose activity name matches no active Activity row
\* fails with InvalidActivity and writes nothing, whatever its code: the
\* activity is checked before the code.
C3_ActivityValidity ==
    \A c \in Calls :
        (/\ Invoked(c)
         /\ frame[c].is_admin
         /\ \A a \in activities :
               a.name = frame[c].p_activity_name => ~a.is_active) =>
            /\ Aborted(c)
            /\ frame[c].sqlerrm = InvalidActivity
            /\ pc[c] = "failed" => frame[c].error = InvalidActivity
            /\ NoEffect(c)

C3_Witness ==
    \E c \in Calls :
        /\ pc[c] = "failed"
        /\ frame[c].is_admin
        /\ frame[c].p_activity_name = "yoga"
        /\ frame[c].error = InvalidActivity
        /\ \A q \in qr_codes : q.code # frame[c].p_code

\* C4: an admin call with an active activity whose code matches no QRCode
\* row that is active and expires strictly after now() (the boundary
\* expires_at = now() included) raises InvalidOrExpiredCode; a call that
\* raised it fails with it and writes no Visit row and no ledger row.
C4_CodeValidity ==
    /\ [][\A c \in Calls :
            (/\ pc[c] = "idle"
             /\ pc'[c] # "idle"
             /\ frame'[c].is_admin
             /\ \E a \in activities :
                   a.name = frame'[c].p_activity_name /\ a.is_active
             /\ \A q \in qr_codes :
                   q.code = frame'[c].p_code =>
                       (~q.is_active \/ q.expires_at <= now)) =>
                /\ pc'[c] = "exception"
                /\ frame'[c].sqlerrm = InvalidOrExpiredCode]_vars
    /\ [](\A c \in Calls :
            frame[c].sqlerrm = InvalidOrExpiredCode =>
                /\ Aborted(c)
                /\ pc[c] = "failed" => frame[c].error = InvalidOrExpiredCode
                /\ NoEffect(c))

C4_Witness ==
    \E c \in Calls :
        /\ pc[c] = "failed"
        /\ frame[c].is_admin
        /\ frame[c].error = InvalidOrExpiredCode
        /\ \E q \in qr_codes :
              /\ q.code = frame[c].p_code
              /\ q.is_active
              /\ q.expires_at = now

\* C5: accept_visit leaves every QRCode row as it was; after a successful
\* call the code is still active; an admin call repeating a code and an
\* activity already redeemed is rejected as InvalidOrExpiredCode only when
\* the code has expired, and when the ledger mutator accepts it too, there
\* are two Visit rows and two ledger entries of the activity's points.
C5_NoDeactivation ==
    /\ \A c \in Calls : Invoked(c) => qr_codes = snap[c].qr_codes
    /\ \A c \in Calls :
          pc[c] = "returned" =>
              \E q \in qr_codes : q.code = frame[c].p_code /\ q.is_active
    /\ \A c \in Calls :
          (/\ Invoked(c)
           /\ frame[c].is_admin
           /\ \E r \in snap[c].ledger :
                 /\ r.metadata.qr_code = frame[c].p_code
                 /\ r.metadata.activity_name = frame[c].p_activity_name) =>
              /\ frame[c].sqlerrm \notin {Unauthorized, InvalidActivity}
              /\ frame[c].sqlerrm = InvalidOrExpiredCode =>
                    \A q \in qr_codes :
                        q.code = frame[c].p_code => q.expires_at <= now
    /\ \A c, d \in Calls :
          (/\ c # d
           /\ pc[c] = "returned"
           /\ pc[d] = "returned"
           /\ frame[c].p_code = frame[d].p_code
           /\ frame[c].p_activity_name = frame[d].p_activity_name) =>
              \E v \in RowsOf(c, visits), w \in RowsOf(d, visits) :
              \E r \in RowsOf(c, points_transactions),
                 u \in RowsOf(d, points_transactions) :
                  /\ v.id # w.id
                  /\ r.metadata.visit_id = v.id
                  /\ u.metadata.visit_id = w.id
                  /\ r.amount = frame[c].v_activity.points
                  /\ u.amount = r.amount

C5_Witness ==
    \E c, d \in Calls :
        /\ c \in snap[d].done
        /\ pc[c] = "returned"
        /\ pc[d] = "returned"
        /\ frame[c].p_code = frame[d].p_code
        /\ frame[c].p_activity_name = frame[d].p_activity_name

MetadataOf(c) == {r.metadata : r \in RowsOf(c, points_transactions)}

\* C6 as stated: the metadata of a successful call has exactly the fields
\* code, visit_id, activity_name and activity_id.
C6_MetadataFieldsAsStated ==
    \A c \in Calls :
        pc[c] = "returned" =>
            \A m \in MetadataOf(c) :
                DOMAIN m = {"code", "visit_id", "activity_name", "activity_id"}

\* C6: the metadata of a successful call has exactly the fields qr_code,
\* visit_id, activity_name and activity_id: the supplied code, the id of
\* the Visit row this call created, the name and id of the resolved Activity.
C6_MetadataPropagation ==
    \A c \in Calls :
        pc[c] = "returned" =>
            /\ MetadataOf(c) # {}
            /\ \A m \in MetadataOf(c) :
                  /\ DOMAIN m =
                        {"qr_code", "visit_id", "activity_name", "activity_id"}
                  /\ m.qr_code = frame[c].p_code
                  /\ \E v \in RowsOf(c, visits) : m.visit_id = v.id
                  /\ \E a \in activities :
                        /\ a.name = frame[c].p_activity_name
                        /\ a.is_active
                        /\ m.activity_name = a.name
                        /\ m.activity_id = a.id

C6_Witness ==
    \E c \in Calls :
        /\ pc[c] = "returned"
        /\ \E m \in MetadataOf(c) :
              m.qr_code = "qr-1" /\ m.activity_id = "a-gym"

\* C7: under every interleaving the committed Visit rows, the committed
\* ledger entries and the calls that returned success are equally many;
\* a successful call has exactly one Visit row and exactly one ledger entry,
\* which names that Visit; a failed call has none; Visit ids are unique.
C7_OneToOne ==
    /\ Cardinality(Committed(visits)) =
          Cardinality({c \in Calls : pc[c] = "returned"})
    /\ Cardinality(Committed(points_transactions)) =
          Cardinality({c \in Calls : pc[c] = "returned"})
    /\ \A c \in Calls :
          pc[c] = "returned" =>
              /\ Cardinality(RowsOf(c, visits)) = 1
              /\ Cardinality(RowsOf(c, points_transactions)) = 1
              /\ \A v \in RowsOf(c, visits),
                    r \in RowsOf(c, points_transactions) :
                    r.metadata.visit_id = v.id
    /\ \A c \in Calls :
          pc[c] = "failed" =>
              RowsOf(c, visits) = {} /\ RowsOf(c, points_transactions) = {}
    /\ \A v, w \in visits : v.id = w.id => v = w

C7_Witness ==
    \E c, d \in Calls :
        /\ c # d
        /\ pc[c] = "returned"
        /\ pc[d] = "returned"
        /\ c \notin snap[d].done
        /\ d \notin snap[c].done
        /\ frame[c].p_code = frame[d].p_code

\* C8: a successful call made its Visit row for the owner of the code, and
\* made one ledger entry, for that user, of the activity's points, of kind
\* "earn", with the note "Points earned from <activity name>"; a ledger
\* entry is only ever written with the Visit row of its call in place.
C8_LedgerArguments ==
    /\ \A c \in Calls :
          pc[c] \in {"return", "returned"} =>
              /\ Cardinality(RowsOf(c, points_transactions)) = 1
              /\ \A v \in RowsOf(c, visits) :
                    \E q \in qr_codes :
                        q.code = frame[c].p_code /\ q.user_id = v.user_id
              /\ \A r \in RowsOf(c, points_transactions) :
                    /\ \E v \in RowsOf(c, visits) : r.user_id = v.user_id
                    /\ \E a \in activities :
                          /\ a.name = frame[c].p_activity_name
                          /\ r.amount = a.points
                          /\ r.description = "Points earned from " \o a.name
                    /\ r.type = "earn"
    /\ \A r \in points_transactions : RowsOf(r.xid, visits) # {}

C8_Witness ==
    \E c \in Calls :
        /\ pc[c] = "returned"
        /\ \E r \in RowsOf(c, points_transactions) :
              r.user_id = "u2" /\ r.amount = 10

\* C9: a call that fails shows its caller the error that was raised, one of
\* Unauthorized, InvalidActivity, InvalidOrExpiredCode or the ledger
\* mutator's own error, and the log has a line with that error's detail; a
\* call that raised never returns success.
C9_ErrorIdentity ==
    \A c \in Calls :
        /\ pc[c] = "failed" =>
              /\ frame[c].error = frame[c].sqlerrm
              /\ frame[c].error \in
                    {Unauthorized, InvalidActivity, InvalidOrExpiredCode}
                        \cup PptErrors
              /\ frame[c].error \in PptErrors <=> frame[c].v_visit_id # 0
              /\ [xid |-> c,
                  line |-> "Error in accept_visit: " \o frame[c].error]
                     \in server_log
        /\ frame[c].sqlerrm # "" => Aborted(c)
        /\ pc[c] \in {"return", "returned"} => frame[c].error = ""

C9_Witness ==
    \E c \in Calls :
        /\ pc[c] = "failed"
        /\ frame[c].error = "User not found"
        /\ [xid |-> c, line |-> "Error in accept_visit: User not found"]
              \in server_log

\* C10: when checkAdminStatus resolved true, the loadData run started by
\* initializeData has fetched by the time it sets loading to false; when it
\* resolved false or threw, that run fetched nothing and left stats and
\* reviewStats null.
C10_InitialLoad ==
    (dpc = "ready" /\ loads = 0) =>
        /\ ~loading
        /\ adminStatus = "true" => initFetched
        /\ adminStatus # "true" =>
              ~initFetched /\ stats = "null" /\ reviewStats = "null"
====
